---- MODULE Spec2Model ----
(***************************************************************************)
(* Treasury-Swap basis pipeline (ftsfr/basis_treas_swap).                  *)
(*                                                                         *)
(* Tables are pandas DataFrames: an index (sequence of keys), an ordered   *)
(* sequence of column labels and, per label, a sequence of cells aligned   *)
(* with the index.  A cell is <<v>> (a value) or <<>> (NaN / missing).     *)
(* Dates are integers YYYYMMDD; rates are integers (percent).              *)
(* The data directory is a function from file names to file contents.      *)
(***************************************************************************)
EXTENDS Integers, Sequences, FiniteSets, TLC

VARIABLES
    fs,           \* the data directory: file name -> file content
    run,          \* what the last entry point (main) did and how it ended
    history,      \* the entry points run since the raw files last changed
    pulls,        \* how many times the raw files were written
    treasury_df,  \* argument of the function under call (Treasury table)
    swap_df,      \* argument of the function under call (swap table)
    ret           \* the last call of a function: its name, arguments, result

vars == <<fs, run, history, pulls, treasury_df, swap_df, ret>>

----------------------------------------------------------------------------
(* Bounds of the model *)

\* the largest number of rows (dates) of a raw input table
MaxRows == 3

\* rates range over 0..MaxRate (percent), plus NaN
MaxRate == 2

\* the largest number of vendor pulls in one behaviour of the pipeline
MaxPulls == 2

----------------------------------------------------------------------------
(* Generic helpers *)

Range(s) == {s[i] : i \in 1..Len(s)}

Contains(s, x) == \E i \in 1..Len(s) : s[i] = x

Iota(n) == [i \in 1..n |-> i]

\* the positions 1..n that satisfy Test, ascending
Positions(n, Test(_)) == SelectSeq(Iota(n), Test)

RECURSIVE SubSeqs(_)
\* all subsequences (order kept) of a sequence
SubSeqs(s) ==
    IF s = <<>> THEN {<<>>}
    ELSE LET rest == SubSeqs(Tail(s))
         IN  rest \cup {<<Head(s)>> \o r : r \in rest}

----------------------------------------------------------------------------
(* Cells and frames: the pandas operations the code uses *)

NaN == <<>>

Num(v) == <<v>>

IsNa(c) == c = NaN

\* elementwise a - b; NaN propagates
CellSub(a, b) == IF IsNa(a) \/ IsNa(b) THEN NaN ELSE Num(a[1] - b[1])

\* elementwise -a + b, as written in calc_swap_spreads
CellNegAdd(a, b) == IF IsNa(a) \/ IsNa(b) THEN NaN ELSE Num((0 - a[1]) + b[1])

\* elementwise k * a
CellScale(k, a) == IF IsNa(a) THEN NaN ELSE Num(k * a[1])

DataFrame(index, columns, data) ==
    [index |-> index, columns |-> columns, data |-> data]

EmptyFrame == DataFrame(<<>>, <<>>, <<>>)

Height(df) == Len(df.index)

\* `col in df.columns`
HasColumn(df, col) == Contains(df.columns, col)

\* df.iloc[pos]: the rows at the given positions, in that order
TakeRows(df, pos) ==
    DataFrame([k \in 1..Len(pos) |-> df.index[pos[k]]],
              df.columns,
              [c \in Range(df.columns) |->
                  [k \in 1..Len(pos) |-> df.data[c][pos[k]]]])

\* df[cols]: the given columns, in that order (all present)
TakeColumns(df, cols) ==
    DataFrame(df.index, cols, [c \in Range(cols) |-> df.data[c]])

\* df[col] = series: the column is replaced in place or appended last
SetColumn(df, col, series) ==
    DataFrame(df.index,
              IF HasColumn(df, col) THEN df.columns ELSE Append(df.columns, col),
              [c \in Range(df.columns) \cup {col} |->
                  IF c = col THEN series ELSE df.data[c]])

\* df.rename(columns=new_cols): new_cols is a function on the renamed labels
RenameColumns(df, new_cols) ==
    LET nm(c) == IF c \in DOMAIN new_cols THEN new_cols[c] ELSE c
        cols  == [i \in 1..Len(df.columns) |-> nm(df.columns[i])]
    IN  DataFrame(df.index, cols,
                  [c \in Range(cols) |->
                      df.data[CHOOSE o \in Range(df.columns) : nm(o) = c]])

\* df.set_index("index"): the column's values become the index
SetIndex(df, col) ==
    LET rest == SelectSeq(df.columns, LAMBDA c : c # col)
    IN  DataFrame([i \in 1..Height(df) |-> df.data[col][i][1]],
                  rest,
                  [c \in Range(rest) |-> df.data[c]])

\* df.reset_index(): the index becomes the first column, "index";
\* the new index is 0..n-1
ResetIndex(df) ==
    DataFrame([i \in 1..Height(df) |-> i - 1],
              <<"index">> \o df.columns,
              [c \in Range(df.columns) \cup {"index"} |->
                  IF c = "index"
                  THEN [i \in 1..Height(df) |-> Num(df.index[i])]
                  ELSE df.data[c]])

\* position of key k in a unique index
IndexOf(index, k) == CHOOSE i \in 1..Len(index) : index[i] = k

\* a merge that keeps every key of the left table (how="left")
MergeLeft(left, right) ==
    LET both  == Range(left.columns) \cap Range(right.columns)
        ln(c) == IF c \in both THEN c \o "_x" ELSE c
        rn(c) == IF c \in both THEN c \o "_y" ELSE c
        lcols == [i \in 1..Len(left.columns) |-> ln(left.columns[i])]
        rcols == [i \in 1..Len(right.columns) |-> rn(right.columns[i])]
    IN  DataFrame(
            left.index,
            lcols \o rcols,
            [c \in Range(lcols) \cup Range(rcols) |->
                IF c \in Range(lcols)
                THEN left.data[CHOOSE o \in Range(left.columns) : ln(o) = c]
                ELSE LET o == CHOOSE o \in Range(right.columns) : rn(o) = c
                     IN  [k \in 1..Len(left.index) |->
                            IF Contains(right.index, left.index[k])
                            THEN right.data[o][IndexOf(right.index, left.index[k])]
                            ELSE NaN]])

\* left.merge(right, left_index=True, right_index=True, how="inner"):
\* the keys of both, in the left's order; a label carried by both sides
\* gets the suffixes _x (left) and _y (right)
MergeInner(left, right) ==
    LET pos   == Positions(Height(left),
                           LAMBDA i : Contains(right.index, left.index[i]))
        both  == Range(left.columns) \cap Range(right.columns)
        ln(c) == IF c \in both THEN c \o "_x" ELSE c
        rn(c) == IF c \in both THEN c \o "_y" ELSE c
        lcols == [i \in 1..Len(left.columns) |-> ln(left.columns[i])]
        rcols == [i \in 1..Len(right.columns) |-> rn(right.columns[i])]
    IN  DataFrame(
            [k \in 1..Len(pos) |-> left.index[pos[k]]],
            lcols \o rcols,
            [c \in Range(lcols) \cup Range(rcols) |->
                IF c \in Range(lcols)
                THEN LET o == CHOOSE o \in Range(left.columns) : ln(o) = c
                     IN  [k \in 1..Len(pos) |-> left.data[o][pos[k]]]
                ELSE LET o == CHOOSE o \in Range(right.columns) : rn(o) = c
                     IN  [k \in 1..Len(pos) |->
                            right.data[o][IndexOf(right.index,
                                                  left.index[pos[k]])]]])

\* df.loc[:stop] on a sorted index: the rows with key <= stop
LocUpTo(df, stop) ==
    TakeRows(df, Positions(Height(df), LAMBDA i : df.index[i] <= stop))

\* df.loc[start:] on a sorted index: the rows with key >= start
LocFrom(df, start) ==
    TakeRows(df, Positions(Height(df), LAMBDA i : df.index[i] >= start))

RECURSIVE BfillSeries(_)
\* a fill that takes the next value after a missing cell (bfill)
BfillSeries(s) ==
    IF Len(s) <= 1 THEN s
    ELSE LET rest == BfillSeries(Tail(s))
         IN  <<IF IsNa(Head(s)) THEN Head(rest) ELSE Head(s)>> \o rest

RECURSIVE FfillSeries(_)
\* Series.ffill(): a missing cell takes the last value before it, if any
FfillSeries(s) ==
    IF Len(s) <= 1 THEN s
    ELSE LET init == FfillSeries(SubSeq(s, 1, Len(s) - 1))
             last == s[Len(s)]
         IN  Append(init, IF IsNa(last) THEN init[Len(init)] ELSE last)

\* df.ffill(), column-wise
Ffill(df) ==
    DataFrame(df.index, df.columns,
              [c \in Range(df.columns) |-> FfillSeries(df.data[c])])

\* df.dropna(): the rows with no missing cell
DropNa(df) ==
    TakeRows(df, Positions(Height(df),
        LAMBDA i : \A c \in Range(df.columns) : ~IsNa(df.data[c][i])))

\* df.dropna(how="all"): the rows with at least one cell present
DropNaAll(df) ==
    TakeRows(df, Positions(Height(df),
        LAMBDA i : \E c \in Range(df.columns) : ~IsNa(df.data[c][i])))

\* df.empty: no rows or no columns
IsEmpty(df) == Height(df) = 0 \/ Len(df.columns) = 0

----------------------------------------------------------------------------
(* Results of calls, files *)

\* a call that returned value v
Ok(v) == [raised |-> "", value |-> v]

\* a call that raised exception e
Raise(e) == [raised |-> e, value |-> EmptyFrame]

None == <<>>

Absent == [kind |-> "absent", df |-> EmptyFrame]

\* a file that is there and is no readable parquet file
Corrupt == [kind |-> "corrupt", df |-> EmptyFrame]

\* df.to_parquet(path): the frame with its index
ToParquet(df) == [kind |-> "parquet", df |-> df]

\* df.to_parquet(path, index=False): the index is not stored, and reads
\* back as 0..n-1
ToParquetNoIndex(df) ==
    [kind |-> "parquet",
     df |-> DataFrame([i \in 1..Height(df) |-> i - 1], df.columns, df.data)]

\* path.exists()
Exists(dir, name) == dir[name].kind # "absent"

\* pd.read_parquet(path)
ReadParquet(dir, name) ==
    CASE dir[name].kind = "absent"  -> Raise("FileNotFoundError")
      [] dir[name].kind = "corrupt" -> Raise("ArrowInvalid")
      [] OTHER                      -> Ok(dir[name].df)

----------------------------------------------------------------------------
(* Column labels.  A vendor label is "<ticker> <key>_<field>", as           *)
(* process_bloomberg_df flattens it; TLC has no substring search, so the   *)
(* two string tests of clean_columns are computed by matching a label      *)
(* against the labels the vocabulary below can form.                       *)

TREASURY_MAPPING ==
    ("USGG1YR" :> "1Y") @@ ("USGG2YR" :> "2Y") @@ ("USGG3YR" :> "3Y") @@
    ("USGG5YR" :> "5Y") @@ ("USGG10YR" :> "10Y") @@ ("USGG20YR" :> "20Y") @@
    ("USGG30YR" :> "30Y")

SWAP_MAPPING ==
    ("USSW1" :> "1Y") @@ ("USSW2" :> "2Y") @@ ("USSW3" :> "3Y") @@
    ("USSW5" :> "5Y") @@ ("USSW10" :> "10Y") @@ ("USSW20" :> "20Y") @@
    ("USSW30" :> "30Y")

OUTPUT_COLUMNS ==
    ("1Y" :> "Arb_Swap_1") @@ ("2Y" :> "Arb_Swap_2") @@ ("3Y" :> "Arb_Swap_3") @@
    ("5Y" :> "Arb_Swap_5") @@ ("10Y" :> "Arb_Swap_10") @@
    ("20Y" :> "Arb_Swap_20") @@ ("30Y" :> "Arb_Swap_30")

\* OUTPUT_COLUMNS.values(), in the dict's insertion order
OutputColumnValues ==
    <<"Arb_Swap_1", "Arb_Swap_2", "Arb_Swap_3", "Arb_Swap_5", "Arb_Swap_10",
      "Arb_Swap_20", "Arb_Swap_30">>

\* the tenors list of compute_treasury_swap_basis
tenors == <<"1Y", "2Y", "3Y", "5Y", "10Y", "20Y", "30Y">>

\* the vendor's security names: <<ticker, yellow key>>; USGG7YR and USSW7
\* are securities the lookup tables do not hold
Securities ==
    {<<t, "Index">> : t \in DOMAIN TREASURY_MAPPING \cup {"USGG7YR"}} \cup
    {<<t, "Curncy">> : t \in DOMAIN SWAP_MAPPING \cup {"USSW7"}}

Fields == {"PX_LAST", "PX_BID"}

SecurityName(sec) == sec[1] \o " " \o sec[2]

\* f"{t[0]}_{t[1]}"
FlatLabel(name, field) == name \o "_" \o field

\* "_PX_LAST" in col
ContainsPxLast(col) ==
    \E sec \in Securities : col = FlatLabel(SecurityName(sec), "PX_LAST")

\* col.split()[0]: the label up to its first blank
SplitFirst(col) ==
    IF \E sec \in Securities, f \in Fields : col = FlatLabel(SecurityName(sec), f)
    THEN (CHOOSE sec \in Securities :
              \E f \in Fields : col = FlatLabel(SecurityName(sec), f))[1]
    ELSE col

----------------------------------------------------------------------------
(* calc_treasury_swap_basis.py *)

\* a clean_columns that keeps only the columns it renames
clean_columns_matched_only(df, mapping, suffix) ==
    LET hit == SelectSeq(df.columns,
                   LAMBDA col : ContainsPxLast(col) /\ SplitFirst(col) \in DOMAIN mapping)
        new_cols == [col \in Range(hit) |-> mapping[SplitFirst(col)] \o "_" \o suffix]
    IN  RenameColumns(TakeColumns(df, hit), new_cols)

\* clean_columns, nested in prepare_data
clean_columns(df, mapping, suffix) ==
    LET hit == {col \in Range(df.columns) :
                   ContainsPxLast(col) /\ SplitFirst(col) \in DOMAIN mapping}
        new_cols == [col \in hit |-> mapping[SplitFirst(col)] \o "_" \o suffix]
    IN  RenameColumns(df, new_cols)

prepare_data(t_df, s_df) ==
    LET t1 == IF HasColumn(t_df, "index") THEN SetIndex(t_df, "index") ELSE t_df
        s1 == IF HasColumn(s_df, "index") THEN SetIndex(s_df, "index") ELSE s_df
        t2 == clean_columns(t1, TREASURY_MAPPING, "Treasury")
        s2 == clean_columns(s1, SWAP_MAPPING, "Swap")
    IN  MergeInner(t2, s2)

\* a loop body that subtracts the yield from the rate
BasisOfTenorSwapped(df_merged, tenor) ==
    LET treas_col  == tenor \o "_Treasury"
        swap_col   == tenor \o "_Swap"
        output_col == OUTPUT_COLUMNS[tenor]
    IN  IF HasColumn(df_merged, treas_col) /\ HasColumn(df_merged, swap_col)
        THEN SetColumn(df_merged, output_col,
                 [i \in 1..Height(df_merged) |->
                     CellScale(100, CellSub(df_merged.data[swap_col][i],
                                            df_merged.data[treas_col][i]))])
        ELSE df_merged

\* one pass of the loop body of compute_treasury_swap_basis
BasisOfTenor(df_merged, tenor) ==
    LET treas_col  == tenor \o "_Treasury"
        swap_col   == tenor \o "_Swap"
        output_col == OUTPUT_COLUMNS[tenor]
    IN  IF HasColumn(df_merged, treas_col) /\ HasColumn(df_merged, swap_col)
        THEN SetColumn(df_merged, output_col,
                 [i \in 1..Height(df_merged) |->
                     CellScale(100, CellSub(df_merged.data[treas_col][i],
                                            df_merged.data[swap_col][i]))])
        ELSE df_merged

RECURSIVE BasisLoop(_, _)
\* the loop of compute_treasury_swap_basis over tenors[1..n]
BasisLoop(df_merged, n) ==
    IF n = 0 THEN df_merged
    ELSE BasisOfTenor(BasisLoop(df_merged, n - 1), tenors[n])

compute_treasury_swap_basis(df_merged) == BasisLoop(df_merged, Len(tenors))

\* calculate_treasury_swap_basis(end_date, data_dir) on the directory dir
calculate_treasury_swap_basis(end_date, dir) ==
    LET t_read == ReadParquet(dir, "treasury_yields.parquet")
        s_read == ReadParquet(dir, "swap_rates.parquet")
    IN  IF t_read.raised # "" THEN Raise(t_read.raised)
        ELSE IF s_read.raised # "" THEN Raise(s_read.raised)
        ELSE
        LET merged    == prepare_data(t_read.value, s_read.value)
            cut       == IF end_date # None THEN LocUpTo(merged, end_date[1])
                         ELSE merged
            computed  == compute_treasury_swap_basis(cut)
            basis_cols == SelectSeq(OutputColumnValues,
                                    LAMBDA col : HasColumn(computed, col))
            basis_df  == TakeColumns(computed, basis_cols)
        IN  Ok(Ffill(basis_df))

----------------------------------------------------------------------------
(* create_ftsfr_datasets.py *)

\* pd.to_datetime of a date: the timestamp of its midnight, YYYYMMDDhh
ToDatetime(d) == d * 100

\* df.stack(future_stack=True).reset_index() with the columns then named
\* names = <<index level, column level, value>>: one row per (row, column)
\* cell, rows in index order and, within a row, in column order; missing
\* cells are kept
StackResetIndex(df, names) ==
    LET w == Len(df.columns)
        n == Height(df) * w
        r(k) == ((k - 1) \div w) + 1
        c(k) == ((k - 1) % w) + 1
    IN  DataFrame([k \in 1..n |-> k - 1], names,
            (names[1] :> [k \in 1..n |-> Num(df.index[r(k)])]) @@
            (names[2] :> [k \in 1..n |-> Num(df.columns[c(k)])]) @@
            (names[3] :> [k \in 1..n |-> df.data[df.columns[c(k)]][r(k)]]))

\* the basis column names in Python's string order
StringOrder ==
    <<"Arb_Swap_1", "Arb_Swap_10", "Arb_Swap_2", "Arb_Swap_20", "Arb_Swap_3",
      "Arb_Swap_30", "Arb_Swap_5">>

\* the sort key of a cell of the long table: a name by its place in
\* Python's string order, a timestamp by its number
SortKey(col, cell) ==
    IF col = "unique_id"
    THEN CHOOSE i \in 1..Len(StringOrder) : StringOrder[i] = cell[1]
    ELSE cell[1]

\* row i sorts before row j by the columns `by` (sort_values' comparison)
RowBefore(df, i, j) ==
    LET ui == SortKey("unique_id", df.data["unique_id"][i])
        uj == SortKey("unique_id", df.data["unique_id"][j])
        di == SortKey("ds", df.data["ds"][i])
        dj == SortKey("ds", df.data["ds"][j])
    IN  ui < uj \/ (ui = uj /\ di < dj)

RECURSIVE SortedPositions(_, _)
\* the positions 1..n of df in sorted order (insertion sort, stable)
SortedPositions(df, n) ==
    IF n = 0 THEN <<>>
    ELSE LET prev == SortedPositions(df, n - 1)
             k == Cardinality({i \in 1..Len(prev) : ~RowBefore(df, n, prev[i])})
         IN  SubSeq(prev, 1, k) \o <<n>> \o SubSeq(prev, k + 1, Len(prev))

\* df.sort_values(by=["unique_id", "ds"]).reset_index(drop=True)
SortValuesResetIndex(df) ==
    LET sorted == TakeRows(df, SortedPositions(df, Height(df)))
    IN  DataFrame([i \in 1..Height(sorted) |-> i - 1], sorted.columns, sorted.data)

\* lines 52-62 of main: the wide basis table to the long table
WideToLong(df_all) ==
    LET stacked == StackResetIndex(df_all, <<"ds", "unique_id", "y">>)
        ordered == TakeColumns(stacked, <<"unique_id", "ds", "y">>)
        dated   == SetColumn(ordered, "ds",
                       [i \in 1..Height(ordered) |->
                           Num(ToDatetime(ordered.data["ds"][i][1]))])
        clean   == DropNa(dated)
    IN  SortValuesResetIndex(clean)

\* the check of lines 29-42 without its test of len(df_existing) > 0
ValidExistingAnyRows(dir) ==
    /\ Exists(dir, "ftsfr_treasury_swap_basis.parquet")
    /\ LET rd == ReadParquet(dir, "ftsfr_treasury_swap_basis.parquet")
       IN  /\ rd.raised = ""
           /\ Range(rd.value.columns) = {"unique_id", "ds", "y"}

\* the check of lines 29-42: an existing file is reused when it reads, has
\* the three columns and has a row; a read that raises is caught
ValidExisting(dir) ==
    /\ Exists(dir, "ftsfr_treasury_swap_basis.parquet")
    /\ LET rd == ReadParquet(dir, "ftsfr_treasury_swap_basis.parquet")
       IN  /\ rd.raised = ""
           /\ Range(rd.value.columns) = {"unique_id", "ds", "y"}
           /\ Height(rd.value) > 0

\* lines 47-68 of main, given what the basis calculation answered
ExportFrom(dir, got) ==
    IF got.raised # ""
    THEN [main |-> "create_ftsfr_datasets", result |-> "raised",
          raised |-> got.raised, calculated |-> TRUE, dir |-> dir]
    ELSE IF IsEmpty(got.value) \/ Len(got.value.columns) = 0
    THEN [main |-> "create_ftsfr_datasets", result |-> "nodata",
          raised |-> "", calculated |-> TRUE, dir |-> dir]
    ELSE [main |-> "create_ftsfr_datasets", result |-> "saved",
          raised |-> "", calculated |-> TRUE,
          dir |-> [dir EXCEPT !["ftsfr_treasury_swap_basis.parquet"] =
                      ToParquetNoIndex(WideToLong(got.value))]]

\* main taking the table the basis calculator saved in place of calling
\* the calculation
create_ftsfr_datasets_main_from_saved(dir) ==
    IF ValidExisting(dir)
    THEN [main |-> "create_ftsfr_datasets", result |-> "existing",
          raised |-> "", calculated |-> FALSE, dir |-> dir]
    ELSE ExportFrom(dir, ReadParquet(dir, "treasury_swap_basis.parquet"))

\* main without the try/except around the read of the existing file
create_ftsfr_datasets_main_unguarded(dir) ==
    IF /\ Exists(dir, "ftsfr_treasury_swap_basis.parquet")
       /\ ReadParquet(dir, "ftsfr_treasury_swap_basis.parquet").raised # ""
    THEN [main |-> "create_ftsfr_datasets", result |-> "raised",
          raised |-> ReadParquet(dir, "ftsfr_treasury_swap_basis.parquet").raised,
          calculated |-> FALSE, dir |-> dir]
    ELSE IF ValidExisting(dir)
    THEN [main |-> "create_ftsfr_datasets", result |-> "existing",
          raised |-> "", calculated |-> FALSE, dir |-> dir]
    ELSE ExportFrom(dir, calculate_treasury_swap_basis(None, dir))

\* main adding the rows it computes to a valid existing file in place of
\* returning
create_ftsfr_datasets_main_appending(dir) ==
    IF ValidExisting(dir)
    THEN LET old == ReadParquet(dir, "ftsfr_treasury_swap_basis.parquet").value
             got == calculate_treasury_swap_basis(None, dir)
             new == WideToLong(got.value)
         IN  IF got.raised # "" \/ IsEmpty(got.value)
             THEN [main |-> "create_ftsfr_datasets", result |-> "existing",
                   raised |-> "", calculated |-> FALSE, dir |-> dir]
             ELSE [main |-> "create_ftsfr_datasets", result |-> "saved",
                   raised |-> "", calculated |-> TRUE,
                   dir |-> [dir EXCEPT !["ftsfr_treasury_swap_basis.parquet"] =
                      ToParquetNoIndex(
                          DataFrame(<<>>, old.columns,
                              [c \in Range(old.columns) |->
                                  old.data[c] \o new.data[c]]))]]
    ELSE ExportFrom(dir, calculate_treasury_swap_basis(None, dir))

\* create_ftsfr_datasets.main on the directory dir: how it ends, whether it
\* called the basis calculation, and the directory afterwards
create_ftsfr_datasets_main(dir) ==
    IF ValidExisting(dir)
    THEN [main |-> "create_ftsfr_datasets", result |-> "existing",
          raised |-> "", calculated |-> FALSE, dir |-> dir]
    ELSE ExportFrom(dir, calculate_treasury_swap_basis(None, dir))

\* calc_treasury_swap_basis.main on the directory dir
calc_treasury_swap_basis_main(dir) ==
    LET got == calculate_treasury_swap_basis(None, dir)
    IN  IF got.raised # ""
        THEN [main |-> "calc_treasury_swap_basis", result |-> "raised",
              raised |-> got.raised, calculated |-> TRUE, dir |-> dir]
        ELSE [main |-> "calc_treasury_swap_basis", result |-> "saved",
              raised |-> "", calculated |-> TRUE,
              dir |-> [dir EXCEPT !["treasury_swap_basis.parquet"] =
                          ToParquet(got.value)]]

----------------------------------------------------------------------------
(* pull_bbg_treasury_swap.py *)

\* process_bloomberg_df: a vendor frame has two-level column labels
\* <<security, field>>; a non-empty one is flattened and its date index
\* becomes the column "index"
process_bloomberg_df(df) ==
    IF ~IsEmpty(df)
    THEN ResetIndex(
             RenameColumns(df, [t \in Range(df.columns) |-> FlatLabel(t[1], t[2])]))
    ELSE df

\* pull_bbg_treasury_swap.main with the two frames blp.bdh returned
pull_bbg_treasury_swap_main(dir, bdh_treasury, bdh_swap) ==
    [main |-> "pull_bbg_treasury_swap", result |-> "saved", raised |-> "",
     calculated |-> FALSE,
     dir |-> [dir EXCEPT
                !["treasury_yields.parquet"] =
                    ToParquet(process_bloomberg_df(bdh_treasury)),
                !["swap_rates.parquet"] =
                    ToParquet(process_bloomberg_df(bdh_swap))]]

----------------------------------------------------------------------------
(* calc_swap_spreads.py, supplementary.py *)

\* s_years of calc_swap_spreads, years of supplementary.py and plot_figure.py
s_years == <<1, 2, 3, 5, 10, 20, 30>>

GT(i) == "GT" \o ToString(i) \o " Govt"

USSO(i) == "USSO" \o ToString(i) \o " CMPN Curncy"

ArbSwap(i) == "Arb_Swap_" \o ToString(i)

TSwapRf(i) == "tswap_" \o ToString(i) \o "_rf"

\* pd.to_datetime(index).year of a date YYYYMMDD
YearOf(d) == d \div 10000

\* one pass of the loop body of calc_swap_spreads (both columns present)
SpreadOfYear(merged_df, i) ==
    LET withArb ==
            SetColumn(merged_df, ArbSwap(i),
                [k \in 1..Height(merged_df) |->
                    CellScale(100, CellNegAdd(merged_df.data[GT(i)][k],
                                              merged_df.data[USSO(i)][k]))])
    IN  SetColumn(withArb, TSwapRf(i),
            [k \in 1..Height(merged_df) |->
                CellScale(100, merged_df.data[USSO(i)][k])])

RECURSIVE SpreadLoop(_, _)
\* the loop of calc_swap_spreads over s_years[1..n]
SpreadLoop(merged_df, n) ==
    IF n = 0 THEN merged_df
    ELSE SpreadOfYear(SpreadLoop(merged_df, n - 1), s_years[n])

\* calc_swap_spreads without the column selection of line 45
calc_swap_spreads_unselected(t_df, s_df) ==
    LET merged_df == MergeInner(s_df, t_df)
    IN  IF \E n \in 1..Len(s_years) :
               ~HasColumn(merged_df, GT(s_years[n])) \/
               ~HasColumn(merged_df, USSO(s_years[n]))
        THEN Raise("KeyError")
        ELSE
        LET spreads  == SpreadLoop(merged_df, Len(s_years))
            recent   == TakeRows(spreads, Positions(Height(spreads),
                            LAMBDA k : YearOf(spreads.index[k]) >= 2000))
        IN  Ok(DropNaAll(recent))

\* calc_swap_spreads(treasury_df, swap_df), single-level column labels;
\* merged_df[label] raises KeyError for a label the merged frame lacks
calc_swap_spreads(t_df, s_df) ==
    LET merged_df == MergeInner(s_df, t_df)
    IN  IF \E n \in 1..Len(s_years) :
               ~HasColumn(merged_df, GT(s_years[n])) \/
               ~HasColumn(merged_df, USSO(s_years[n]))
        THEN Raise("KeyError")
        ELSE
        LET spreads  == SpreadLoop(merged_df, Len(s_years))
            recent   == TakeRows(spreads, Positions(Height(spreads),
                            LAMBDA k : YearOf(spreads.index[k]) >= 2000))
            arb_list == [n \in 1..Len(s_years) |-> ArbSwap(s_years[n])]
            tswap_list == [n \in 1..Len(s_years) |-> TSwapRf(s_years[n])]
        IN  Ok(DropNaAll(TakeColumns(recent, arb_list \o tswap_list)))

\* replication_df(treasury_df, swap_df); df[list] raises KeyError when a
\* label of the list is not a column
replication_df(t_df, s_df) ==
    LET t_list == [n \in 1..Len(s_years) |-> GT(s_years[n])]
        s_list == [n \in 1..Len(s_years) |-> USSO(s_years[n])]
    IN  IF \/ \E n \in 1..Len(t_list) : ~HasColumn(t_df, t_list[n])
           \/ \E n \in 1..Len(s_list) : ~HasColumn(s_df, s_list[n])
        THEN Raise("KeyError")
        ELSE Ok(MergeInner(LocFrom(TakeColumns(t_df, t_list), 20100101),
                           LocFrom(TakeColumns(s_df, s_list), 20100101)))

RECURSIVE SumCells(_)
\* <<sum, count>> of the cells of a series that are not missing
SumCells(s) ==
    IF s = <<>> THEN <<0, 0>>
    ELSE LET rest == SumCells(Tail(s))
         IN  IF IsNa(Head(s)) THEN rest
             ELSE <<rest[1] + Head(s)[1], rest[2] + 1>>

\* Series.mean(): missing cells are skipped; the mean is kept as the pair
\* <<sum, count>>, and is NaN when no cell is present
Mean(s) == IF SumCells(s)[2] = 0 THEN NaN ELSE SumCells(s)

\* sup_table(calc_df): the frame of means, one row per renamed column
sup_table(calc_df) ==
    IF \E n \in 1..Len(s_years) : ~HasColumn(calc_df, ArbSwap(s_years[n]))
    THEN Raise("KeyError")
    ELSE Ok(DataFrame(
                [n \in 1..Len(s_years) |-> "Arb Swap " \o ToString(s_years[n])],
                <<"Mean(bps)">>,
                ("Mean(bps)" :>
                    [n \in 1..Len(s_years) |->
                        Mean(calc_df.data[ArbSwap(s_years[n])])])))

\* supplementary_main(data_dir) on the directory dir: its return value (or
\* the exception) and the directory afterwards, with table.txt written
supplementary_main(dir) ==
    LET s_read == ReadParquet(dir, "syields.parquet")
        t_read == ReadParquet(dir, "tyields.parquet")
    IN  IF s_read.raised # "" THEN [raised |-> s_read.raised,
                                   value |-> EmptyFrame, dir |-> dir]
        ELSE IF t_read.raised # "" THEN [raised |-> t_read.raised,
                                        value |-> EmptyFrame, dir |-> dir]
        ELSE
        LET calc == calc_swap_spreads(t_read.value, s_read.value)
            tab  == IF calc.raised # "" THEN calc ELSE sup_table(calc.value)
            rep  == replication_df(t_read.value, s_read.value)
        IN  IF tab.raised # ""
            THEN [raised |-> tab.raised, value |-> EmptyFrame, dir |-> dir]
            ELSE [raised |-> rep.raised, value |-> rep.value,
                  dir |-> [dir EXCEPT !["table.txt"] =
                              [kind |-> "latex", df |-> tab.value]]]

----------------------------------------------------------------------------
(* plot_figure.py *)

\* series.loc[start_dt:end_dt] / series.loc[start_dt:] / series, as chosen
\* by lines 57-62 (and 113-118): the positions of the index kept
WindowFigure(index, start_dt, end_dt) ==
    IF start_dt # None /\ end_dt # None
    THEN Positions(Len(index),
             LAMBDA i : start_dt[1] <= index[i] /\ index[i] <= end_dt[1])
    ELSE IF start_dt # None
    THEN Positions(Len(index), LAMBDA i : start_dt[1] <= index[i])
    ELSE Iota(Len(index))

\* one go.Scatter trace: the points of pos whose cell passes Keep
Trace(name, index, series, pos, Keep(_), Y(_)) ==
    LET kept == SelectSeq(pos, LAMBDA i : Keep(series[i]))
    IN  [name |-> name,
         x |-> [k \in 1..Len(kept) |-> index[kept[k]]],
         y |-> [k \in 1..Len(kept) |-> Y(series[kept[k]])]]

\* plot_figure(arb_df, save_path, start_date, end_date): the traces of the
\* figure, one per tenor whose column is there
plot_figure(arb_df, start_date, end_date) ==
    LET present == SelectSeq(s_years, LAMBDA year : HasColumn(arb_df, ArbSwap(year)))
        pos == WindowFigure(arb_df.index, start_date, end_date)
    IN  [n \in 1..Len(present) |->
            Trace(ToString(present[n]) \o "Y", arb_df.index,
                  arb_df.data[ArbSwap(present[n])], pos,
                  LAMBDA c : ~IsNa(c), LAMBDA c : c[1])]

\* plot_supplementary without the selection of positive values of lines
\* 122 and 124
plot_supplementary_unfiltered(rep_df, start_date, end_date) ==
    LET present == SelectSeq(s_years,
                       LAMBDA year : HasColumn(rep_df, GT(year)) /\
                                     HasColumn(rep_df, USSO(year)))
        pos == WindowFigure(rep_df.index, start_date, end_date)
    IN  [n \in 1..Len(present) |->
            [year |-> present[n],
             traces |->
               <<Trace(ToString(present[n]) \o "Y Treasury", rep_df.index,
                       rep_df.data[GT(present[n])], pos,
                       LAMBDA c : ~IsNa(c), LAMBDA c : 100 * c[1]),
                 Trace(ToString(present[n]) \o "Y Swap", rep_df.index,
                       rep_df.data[USSO(present[n])], pos,
                       LAMBDA c : ~IsNa(c), LAMBDA c : 100 * c[1])>>]]

\* plot_supplementary(replication_df, save_path, start_date, end_date): per
\* tenor with both columns, the file's year and its two traces; y holds the
\* argument 100 * rate of np.log
plot_supplementary(rep_df, start_date, end_date) ==
    LET present == SelectSeq(s_years,
                       LAMBDA year : HasColumn(rep_df, GT(year)) /\
                                     HasColumn(rep_df, USSO(year)))
        pos == WindowFigure(rep_df.index, start_date, end_date)
    IN  [n \in 1..Len(present) |->
            [year |-> present[n],
             traces |->
               <<Trace(ToString(present[n]) \o "Y Treasury", rep_df.index,
                       rep_df.data[GT(present[n])], pos,
                       LAMBDA c : ~IsNa(c) /\ c[1] > 0, LAMBDA c : 100 * c[1]),
                 Trace(ToString(present[n]) \o "Y Swap", rep_df.index,
                       rep_df.data[USSO(present[n])], pos,
                       LAMBDA c : ~IsNa(c) /\ c[1] > 0, LAMBDA c : 100 * c[1])>>]]

DEFAULT_START_DATE == 19980101

REPLICATION_END_DATE == 20250801

\* a figure written by fig.write_html; its traces are the value of the
\* plotting function
Html == [kind |-> "html", df |-> EmptyFrame]

\* the files plot_supplementary writes for its charts
ChartFiles(charts) ==
    {"replication_figure" \o ToString(charts[n].year) \o ".html" :
        n \in 1..Len(charts)}

\* lines 175-194 of plot_main: the three plotting calls on the table of
\* spreads arb_df and the replication table rep_df, dir being the
\* directory supplementary_main left
PlotAll(dir, arb_df, charts) ==
    [main |-> "plot_figure", result |-> "plotted",
     raised |-> "", calculated |-> FALSE,
     figures |-> <<plot_figure(arb_df, <<DEFAULT_START_DATE>>,
                               <<REPLICATION_END_DATE>>),
                   plot_figure(arb_df, <<DEFAULT_START_DATE>>, None),
                   charts>>,
     dir |-> [f \in DOMAIN dir |->
                 IF f \in {"replicated_swap_spread_arb_figure.html",
                           "updated_swap_spread_arb_figure.html"}
                           \cup ChartFiles(charts)
                 THEN Html ELSE dir[f]]]

\* lines 169-194 of plot_main, given what the read of the table of spreads
\* and supplementary_main answered
PlotFrom(dir, arb, sup) ==
    IF arb.raised # ""
    THEN [main |-> "plot_figure", result |-> "raised",
          raised |-> arb.raised, calculated |-> FALSE,
          figures |-> <<>>, dir |-> dir]
    ELSE IF sup.raised # ""
    THEN [main |-> "plot_figure", result |-> "raised",
          raised |-> sup.raised, calculated |-> FALSE,
          figures |-> <<>>, dir |-> sup.dir]
    ELSE PlotAll(sup.dir, arb.value,
                 plot_supplementary(sup.value, <<DEFAULT_START_DATE>>, None))

\* plot_main(data_dir) on the directory dir: how it ends, the figures it
\* drew and the directory afterwards
plot_main(dir) ==
    PlotFrom(dir, ReadParquet(dir, "swap_spreads.parquet"),
             supplementary_main(dir))

----------------------------------------------------------------------------
(* The inputs: what the vendor returns and what the tables hold *)

\* the trading days the vendor has data for, ascending
DateList == <<19990104, 20050103, 20150102, 20200102>>

\* the date indexes of a table: ascending, without repeats
Indexes == {ix \in SubSeqs(DateList) : Len(ix) <= MaxRows}

Cells == {NaN} \cup {Num(v) : v \in 0..MaxRate}

\* a series without gaps that differs from day to day
FillSeries(index) ==
    [i \in 1..Len(index) |->
        Num(1 + ((CHOOSE k \in 1..Len(DateList) : DateList[k] = index[i])
                 % MaxRate))]

\* the frames over `index` with columns `labels`: column `free` holds any
\* cells, the other columns FillSeries
FramesOver(index, labels, free) ==
    {DataFrame(index, labels,
               [c \in Range(labels) |-> IF c = free THEN sr ELSE FillSeries(index)])
        : sr \in [1..Len(index) -> Cells]}

\* the frame over `index` with columns `labels`, column `held` holding the
\* cell c on every day
FrameHolding(index, labels, held, c) ==
    DataFrame(index, labels,
              [l \in Range(labels) |->
                  IF l = held THEN [i \in 1..Len(index) |-> c]
                  ELSE FillSeries(index)])

BdhLabel(ticker, key) == <<ticker \o " " \o key, "PX_LAST">>

\* blp.bdh answers with no data at all are empty frames without columns
BdhIndexes == Indexes \ {<<>>}

\* the first days of the date list
Prefixes == {SubSeq(DateList, 1, n) : n \in 0..MaxRows} \cap Indexes

\* the cells a swap column holds on every day
HeldCells == {NaN, Num(1)}

\* blp.bdh answers for the 1Y tickers: the two tables on any pair of date
\* indexes, or empty
BdhByIndex ==
    {<<t, s>> :
        t \in {FrameHolding(ti, <<BdhLabel("USGG1YR", "Index")>>, <<>>, NaN)
                  : ti \in BdhIndexes} \cup {EmptyFrame},
        s \in {FrameHolding(si, <<BdhLabel("USSW1", "Curncy")>>, <<>>, NaN)
                  : si \in BdhIndexes} \cup {EmptyFrame}}

\* blp.bdh answers on one index: the 1Y Treasury yield is any series, the
\* 1Y swap rate holds one cell, the 10Y columns are there on both sides or
\* on one
BdhByValue ==
    UNION {
      {<<t, FrameHolding(ix, ls[2], BdhLabel("USSW1", "Curncy"), c)>> :
          t \in FramesOver(ix, ls[1], BdhLabel("USGG1YR", "Index"))}
      : ix \in Prefixes \ {<<>>}, c \in HeldCells,
        ls \in {<<<<BdhLabel("USGG1YR", "Index"), BdhLabel("USGG10YR", "Index")>>,
                  <<BdhLabel("USSW1", "Curncy"), BdhLabel("USSW10", "Curncy")>>>>,
                <<<<BdhLabel("USGG1YR", "Index"), BdhLabel("USGG10YR", "Index")>>,
                  <<BdhLabel("USSW1", "Curncy")>>>>,
                <<<<BdhLabel("USGG1YR", "Index")>>,
                  <<BdhLabel("USSW1", "Curncy"), BdhLabel("USSW10", "Curncy")>>>>}}

\* raw tables as pull_bbg_treasury_swap.main stores them
RawOf(pair) == <<process_bloomberg_df(pair[1]), process_bloomberg_df(pair[2])>>

\* the same tables with the dates already as the index
Indexed(df) == IF HasColumn(df, "index") THEN SetIndex(df, "index") ELSE df

\* raw tables with other columns: a ticker the lookup lacks, another
\* field, and a label both tables carry
TreasuryLabels ==
    <<"USGG1YR Index_PX_LAST", "USGG7YR Index_PX_LAST", "USGG2YR Index_PX_BID">>

SwapLabels ==
    <<"USSW1 Curncy_PX_LAST", "USGG7YR Index_PX_LAST", "USSW7 Curncy_PX_LAST">>

RawByLabel ==
    {<<ResetIndex(FrameHolding(ix, tl, "", NaN)),
       ResetIndex(FrameHolding(ix, sl, "", NaN))>>
        : ix \in Prefixes \ {<<>>},
          tl \in SubSeqs(TreasuryLabels), sl \in SubSeqs(SwapLabels)}

\* the legacy tables (tyields / syields): GT<n> Govt and USSO<n> CMPN Curncy
\* columns, all seven tenors or all but the last
LegacyLabels(L(_), n) == [k \in 1..n |-> L(s_years[k])]

LegacyTables ==
    UNION {
      {<<t, FrameHolding(ix, LegacyLabels(USSO, n[2]), USSO(1), c)>> :
          t \in FramesOver(ix, LegacyLabels(GT, n[1]), GT(1))}
      : ix \in Prefixes \ {<<>>}, c \in HeldCells,
        n \in {<<Len(s_years), Len(s_years)>>,
               <<Len(s_years) - 1, Len(s_years)>>,
               <<Len(s_years), Len(s_years) - 1>>}}

\* the rates of the legacy tables that carry other columns: missing,
\* negative, zero and positive
RateCells == {NaN, Num(-1), Num(0), Num(1)}

\* the last two days of the date list
RecentIndex == <<DateList[Len(DateList) - 1], DateList[Len(DateList)]>>

\* the columns the legacy tables carry besides the tickers: none, or a
\* label the calculation assigns, a label of its result and a label both
\* tables carry
OtherColumns ==
    {<<<<>>, <<>>>>, <<<<"Year", "tswap_30_rf", "Notes">>, <<"Notes">>>>}

\* legacy tables with all fourteen tickers on the last two days: the 1Y
\* yield is any series of rates, the 1Y swap rate holds one rate
LegacyWithOthers ==
    {<<DataFrame(RecentIndex, LegacyLabels(GT, Len(s_years)) \o o[1],
                 [l \in Range(LegacyLabels(GT, Len(s_years)) \o o[1]) |->
                     IF l = GT(1) THEN sr ELSE FillSeries(RecentIndex)]),
       FrameHolding(RecentIndex, LegacyLabels(USSO, Len(s_years)) \o o[2],
                    USSO(1), c)>>
        : sr \in [1..Len(RecentIndex) -> RateCells], c \in RateCells,
          o \in OtherColumns}

\* the pairs <<treasury_df, swap_df>> the functions are called with
ArgumentPairs ==
    {RawOf(p) : p \in BdhByIndex \cup BdhByValue}
    \cup {<<Indexed(RawOf(p)[1]), Indexed(RawOf(p)[2])>> : p \in BdhByIndex}
    \cup RawByLabel
    \cup LegacyTables
    \cup LegacyWithOthers

\* the optional dates a caller passes
OptionalDates == {None, <<DateList[2]>>}

----------------------------------------------------------------------------
(* The state machines *)

FileNames ==
    {"treasury_yields.parquet", "swap_rates.parquet",
     "treasury_swap_basis.parquet", "ftsfr_treasury_swap_basis.parquet",
     "tyields.parquet", "syields.parquet", "swap_spreads.parquet", "table.txt",
     "replicated_swap_spread_arb_figure.html",
     "updated_swap_spread_arb_figure.html"}
    \cup {"replication_figure" \o ToString(s_years[n]) \o ".html" :
             n \in 1..Len(s_years)}

EmptyDir == [f \in FileNames |-> Absent]

NoRun == [main |-> "", result |-> "", raised |-> "", calculated |-> FALSE]

NoCall == [fn |-> "", arg |-> EmptyFrame, opt |-> <<None, None>>,
           raised |-> "", value |-> EmptyFrame]

\* the record of a call of fn on arg with optional dates opt, ended as res
Call(fn, arg, opt, res) ==
    [fn |-> fn, arg |-> arg, opt |-> opt,
     raised |-> res.raised, value |-> res.value]

\* the outcome of a main without the directory
Outcome(r) == [main |-> r.main, result |-> r.result, raised |-> r.raised,
               calculated |-> r.calculated]

\* the history with one more entry point, the last two kept
Noted(h, main) == IF Len(h) < 2 THEN Append(h, main) ELSE <<h[2], main>>

(* ---- the pipeline: the entry points run one after another on the data   *)
(* directory, in any order and any number of times                         *)

\* the vendor's answers the pipeline is run with: two tenors on two days,
\* the 1Y Treasury yield free on the second day or missing on the first;
\* two tables with no day in common; and one tenor whose yield is missing
\* on both days
PipelineBdh ==
    LET ix == <<DateList[2], DateList[3]>>
        t1 == BdhLabel("USGG1YR", "Index")
        tl == <<t1, BdhLabel("USGG10YR", "Index")>>
        sl == <<BdhLabel("USSW1", "Curncy"), BdhLabel("USSW10", "Curncy")>>
    IN  {<<t, FrameHolding(ix, sl, <<>>, NaN)>> :
            t \in {f \in FramesOver(ix, tl, t1) :
                      \/ f.data[t1][1] = Num(1)
                      \/ f.data[t1][1] = NaN /\ f.data[t1][2] = Num(1)}}
        \cup {<<FrameHolding(<<DateList[1]>>, tl, <<>>, NaN),
                FrameHolding(ix, sl, <<>>, NaN)>>,
              <<FrameHolding(ix, <<t1>>, t1, NaN),
                FrameHolding(ix, <<BdhLabel("USSW1", "Curncy")>>, <<>>, NaN)>>}

\* files found in place of the long-format file that this program did not
\* write: a wide table, a long table without rows, and a long table with
\* its columns in another order, unsorted, with a repeated row and a
\* missing value
ForeignWide ==
    DataFrame(<<DateList[2]>>, <<"Arb_Swap_1">>, ("Arb_Swap_1" :> <<Num(100)>>))

ForeignNoRows ==
    DataFrame(<<>>, <<"unique_id", "ds", "y">>,
              ("unique_id" :> <<>>) @@ ("ds" :> <<>>) @@ ("y" :> <<>>))

ForeignLong ==
    DataFrame(<<0, 1, 2>>, <<"ds", "unique_id", "y">>,
        ("ds" :> <<Num(ToDatetime(DateList[3])), Num(ToDatetime(DateList[2])),
                   Num(ToDatetime(DateList[2]))>>) @@
        ("unique_id" :> <<Num("Arb_Swap_5"), Num("Arb_Swap_1"), Num("Arb_Swap_1")>>) @@
        ("y" :> <<NaN, Num(100), Num(100)>>))

ForeignFiles ==
    {Absent, Corrupt, ToParquet(ForeignWide), ToParquet(ForeignNoRows),
     ToParquet(ForeignLong)}

Init ==
    /\ fs = EmptyDir
    /\ run = NoRun
    /\ history = <<>>
    /\ pulls = 0
    /\ treasury_df = EmptyFrame
    /\ swap_df = EmptyFrame
    /\ ret = NoCall

\* pull_bbg_treasury_swap.main
PullMain ==
    \E bdh \in PipelineBdh :
        LET r == pull_bbg_treasury_swap_main(fs, bdh[1], bdh[2])
        IN  /\ pulls < MaxPulls
            /\ fs' = r.dir
            /\ run' = Outcome(r)
            /\ history' = <<>>
            /\ pulls' = pulls + 1
            /\ UNCHANGED <<treasury_df, swap_df, ret>>

\* calc_treasury_swap_basis.main
CalcMain ==
    LET r == calc_treasury_swap_basis_main(fs)
    IN  /\ fs' = r.dir
        /\ run' = Outcome(r)
        /\ history' = Noted(history, r.main)
        /\ UNCHANGED <<pulls, treasury_df, swap_df, ret>>

\* create_ftsfr_datasets.main
ExporterMain ==
    LET r == create_ftsfr_datasets_main(fs)
    IN  /\ fs' = r.dir
        /\ run' = Outcome(r)
        /\ history' = Noted(history, r.main)
        /\ UNCHANGED <<pulls, treasury_df, swap_df, ret>>

\* an entry point ran on the data directory and ended as r
Ran(r) ==
    /\ fs' = r.dir
    /\ run' = Outcome(r)
    /\ history' = Noted(history, r.main)
    /\ UNCHANGED <<pulls, treasury_df, swap_df, ret>>

\* plot_figure.plot_main
PlotMain == Ran(plot_main(fs))

\* the long-format file is removed or replaced from outside the program
ForeignFile ==
    \E f \in ForeignFiles :
        /\ fs' = [fs EXCEPT !["ftsfr_treasury_swap_basis.parquet"] = f]
        /\ run' = NoRun
        /\ UNCHANGED <<history, pulls, treasury_df, swap_df, ret>>

NextRuns == PullMain \/ CalcMain \/ ExporterMain \/ PlotMain

\* the entry points alone
SpecRuns == Init /\ [][NextRuns]_vars

Next == PullMain \/ CalcMain \/ ExporterMain \/ PlotMain \/ ForeignFile

\* the entry points, and a data directory others write to as well
Spec == Init /\ [][Next]_vars

(* ---- the functions, called on argument tables                           *)

\* the data directory that holds the argument tables and what dir holds
ArgDir(dir, t_df, s_df) ==
    [dir EXCEPT !["treasury_yields.parquet"] = ToParquet(t_df),
                     !["swap_rates.parquet"] = ToParquet(s_df),
                     !["tyields.parquet"] = ToParquet(t_df),
                     !["syields.parquet"] = ToParquet(s_df)]

InitFn ==
    /\ \E p \in ArgumentPairs :
          /\ treasury_df = p[1]
          /\ swap_df = p[2]
    /\ fs = EmptyDir
    /\ run = NoRun
    /\ history = <<>>
    /\ pulls = 0
    /\ ret = NoCall

CallPrepareData ==
    /\ ret.fn = ""
    /\ ret' = Call("prepare_data", EmptyFrame, <<None, None>>,
                   Ok(prepare_data(treasury_df, swap_df)))
    /\ UNCHANGED <<fs, run, history, pulls, treasury_df, swap_df>>

\* compute_treasury_swap_basis on a merged table
CallComputeBasis ==
    /\ ret.fn = "prepare_data"
    /\ ret' = Call("compute_treasury_swap_basis", ret.value, <<None, None>>,
                   Ok(compute_treasury_swap_basis(ret.value)))
    /\ UNCHANGED <<fs, run, history, pulls, treasury_df, swap_df>>

\* calculate_treasury_swap_basis on a directory that holds the tables
CallCalculate ==
    \E end_date \in OptionalDates :
        /\ ret.fn = ""
        /\ ret' = Call("calculate_treasury_swap_basis", EmptyFrame,
                       <<None, end_date>>,
                       calculate_treasury_swap_basis(
                           end_date, ArgDir(fs, treasury_df, swap_df)))
        /\ UNCHANGED <<fs, run, history, pulls, treasury_df, swap_df>>

CallCalcSwapSpreads ==
    /\ ret.fn = ""
    /\ ret' = Call("calc_swap_spreads", EmptyFrame, <<None, None>>,
                   calc_swap_spreads(treasury_df, swap_df))
    /\ UNCHANGED <<fs, run, history, pulls, treasury_df, swap_df>>

CallReplicationDf ==
    /\ ret.fn = ""
    /\ ret' = Call("replication_df", EmptyFrame, <<None, None>>,
                   replication_df(treasury_df, swap_df))
    /\ UNCHANGED <<fs, run, history, pulls, treasury_df, swap_df>>

\* sup_table on a table of spreads; the table of means is written to
\* table.txt
CallSupTable ==
    /\ ret.fn \in {"calc_swap_spreads", "calculate_treasury_swap_basis"}
    /\ ret.raised = ""
    /\ LET res == sup_table(ret.value)
       IN  /\ ret' = Call("sup_table", ret.value, <<None, None>>, res)
           /\ fs' = IF res.raised = ""
                    THEN [fs EXCEPT !["table.txt"] =
                             [kind |-> "latex", df |-> res.value]]
                    ELSE fs
    /\ UNCHANGED <<run, history, pulls, treasury_df, swap_df>>

\* supplementary_main on a directory that holds the tables
CallSupplementaryMain ==
    /\ ret.fn = ""
    /\ LET r == supplementary_main(ArgDir(fs, treasury_df, swap_df))
       IN  /\ ret' = Call("supplementary_main", EmptyFrame, <<None, None>>, r)
           /\ fs' = [fs EXCEPT !["table.txt"] = r.dir["table.txt"]]
    /\ UNCHANGED <<run, history, pulls, treasury_df, swap_df>>

\* plot_figure on a table of spreads
CallPlotFigure ==
    \E start_date \in OptionalDates, end_date \in OptionalDates :
        /\ ret.fn \in {"calc_swap_spreads", "calculate_treasury_swap_basis"}
        /\ ret.raised = ""
        /\ ret' = Call("plot_figure", ret.value, <<start_date, end_date>>,
                       Ok(plot_figure(ret.value, start_date, end_date)))
        /\ UNCHANGED <<fs, run, history, pulls, treasury_df, swap_df>>

\* plot_supplementary on a merged table of yields and swap rates
CallPlotSupplementary ==
    \E start_date \in OptionalDates, end_date \in OptionalDates :
        /\ ret.fn \in {"replication_df", "prepare_data"}
        /\ ret.raised = ""
        /\ ret' = Call("plot_supplementary", ret.value, <<start_date, end_date>>,
                       Ok(plot_supplementary(ret.value, start_date, end_date)))
        /\ UNCHANGED <<fs, run, history, pulls, treasury_df, swap_df>>

\* the directory plot_main is given: the legacy tables and, when
\* calc_swap_spreads returned one for them, the table of spreads
PlotDir(dir, spreads) ==
    [dir EXCEPT !["swap_spreads.parquet"] =
        IF spreads.raised = "" THEN ToParquet(spreads.value) ELSE Absent]

\* plot_main was called and ended as r
CalledPlotMain(r) ==
    /\ ret' = [fn |-> "plot_main", arg |-> EmptyFrame,
               opt |-> <<<<DEFAULT_START_DATE>>, None>>,
               raised |-> r.raised, value |-> r.figures]
    /\ fs' = [f \in DOMAIN fs |->
                 IF r.dir[f].kind \in {"html", "latex"} THEN r.dir[f]
                 ELSE fs[f]]
    /\ UNCHANGED <<run, history, pulls, treasury_df, swap_df>>

\* plot_main on a directory that holds the tables
CallPlotMain ==
    /\ ret.fn = ""
    /\ CalledPlotMain(plot_main(PlotDir(ArgDir(fs, treasury_df, swap_df),
                           calc_swap_spreads(treasury_df, swap_df))))

NextFn ==
    \/ CallPlotMain
    \/ CallPrepareData
    \/ CallComputeBasis
    \/ CallCalculate
    \/ CallCalcSwapSpreads
    \/ CallReplicationDf
    \/ CallSupTable
    \/ CallSupplementaryMain
    \/ CallPlotFigure
    \/ CallPlotSupplementary

\* the functions of the modules, each called on any of the argument tables
SpecFn == InitFn /\ [][NextFn]_vars

----------------------------------------------------------------------------
(* What the claims speak of, stated from the tables themselves *)

\* the dates of a table: its "index" column when it has one, else its index
DateSeq(df) ==
    IF HasColumn(df, "index")
    THEN [i \in 1..Height(df) |-> df.data["index"][i][1]]
    ELSE df.index

DatesOf(df) == Range(DateSeq(df))

\* the cell of column `label` on date d
CellOn(df, label, d) == df.data[label][IndexOf(DateSeq(df), d)]

\* the name of the n-th tenor, "1Y" .. "30Y"
TenorName(n) == ToString(s_years[n]) \o "Y"

\* (yield - rate) * 100 of two cells, missing when either is
BasisPoints(yield, rate) ==
    IF yield = NaN \/ rate = NaN THEN NaN ELSE Num((yield[1] - rate[1]) * 100)

\* the vendor's flattened labels of the n-th tenor
TreasuryLabel(n) == "USGG" \o ToString(s_years[n]) \o "YR Index_PX_LAST"

SwapLabel(n) == "USSW" \o ToString(s_years[n]) \o " Curncy_PX_LAST"

\* the basis of the n-th tenor on date d, from the raw tables t_df, s_df
RawBasis(t_df, s_df, n, d) ==
    BasisPoints(CellOn(t_df, TreasuryLabel(n), d), CellOn(s_df, SwapLabel(n), d))

\* the tenors both raw tables have
RawTenors(t_df, s_df) ==
    {n \in 1..Len(s_years) :
        HasColumn(t_df, TreasuryLabel(n)) /\ HasColumn(s_df, SwapLabel(n))}

\* the dates up to d of both raw tables on which tenor n has a basis
Observed(t_df, s_df, n, d) ==
    {e \in DatesOf(t_df) \cap DatesOf(s_df) :
        e <= d /\ RawBasis(t_df, s_df, n, e) # NaN}

\* the most recent basis of tenor n at or before d, missing when none
LatestBasis(t_df, s_df, n, d) ==
    LET seen == Observed(t_df, s_df, n, d)
    IN  IF seen = {} THEN NaN
        ELSE RawBasis(t_df, s_df, n, CHOOSE e \in seen : \A f \in seen : f <= e)

----------------------------------------------------------------------------
(* Claims on the functions, checked under SpecFn *)

\* C1: compute_treasury_swap_basis returns a column Arb_Swap_{n} exactly
\* for the tenors whose {tenor}_Treasury and {tenor}_Swap columns are both
\* in the merged table, holding (Treasury - Swap) * 100 on every date; a
\* tenor that lacks a column gets none, and nothing is raised.
C1_BasisPerTenor ==
    ret.fn = "compute_treasury_swap_basis" =>
        /\ ret.raised = ""
        /\ ret.value.index = ret.arg.index
        /\ \A n \in 1..Len(s_years) :
              LET treas == TenorName(n) \o "_Treasury"
                  swap  == TenorName(n) \o "_Swap"
                  out   == "Arb_Swap_" \o ToString(s_years[n])
              IN  /\ HasColumn(ret.value, out) <=>
                        (HasColumn(ret.arg, treas) /\ HasColumn(ret.arg, swap))
                  /\ HasColumn(ret.value, out) =>
                        \A i \in 1..Height(ret.arg) :
                            ret.value.data[out][i] =
                                BasisPoints(ret.arg.data[treas][i],
                                            ret.arg.data[swap][i])

\* a merged table with both 1Y columns and a positive 1Y basis, and with
\* the 10Y yield but no 10Y swap rate
C1_Witness ==
    /\ ret.fn = "compute_treasury_swap_basis"
    /\ HasColumn(ret.value, "Arb_Swap_1")
    /\ \E i \in 1..Height(ret.value) :
          /\ ret.value.data["Arb_Swap_1"][i] # NaN
          /\ ret.value.data["Arb_Swap_1"][i][1] > 0
    /\ HasColumn(ret.arg, "10Y_Treasury")
    /\ ~HasColumn(ret.arg, "10Y_Swap")
    /\ ~HasColumn(ret.value, "Arb_Swap_10")

\* C2: every Arb_Swap value, the ones of calc_swap_spreads included, is
\* (Treasury yield - swap rate) * 100 of its date, so it is positive
\* exactly when the yield exceeds the rate.
C2_SignConvention ==
    /\ C1_BasisPerTenor
    /\ (ret.fn = "calc_swap_spreads" /\ ret.raised = "") =>
          \A n \in 1..Len(s_years), i \in 1..Height(ret.value) :
              LET d == ret.value.index[i]
                  yield == CellOn(treasury_df, GT(s_years[n]), d)
                  rate  == CellOn(swap_df, USSO(s_years[n]), d)
                  arb   == ret.value.data[ArbSwap(s_years[n])][i]
              IN  /\ arb = BasisPoints(yield, rate)
                  /\ arb # NaN => (arb[1] > 0 <=> yield[1] > rate[1])

\* C5: the date index of prepare_data's result is the intersection of the
\* dates of its two inputs, each date once; nothing is raised.
C5_InnerJoin ==
    ret.fn = "prepare_data" =>
        /\ ret.raised = ""
        /\ Range(ret.value.index) = DatesOf(treasury_df) \cap DatesOf(swap_df)
        /\ Cardinality(Range(ret.value.index)) = Height(ret.value)

\* each table has a date the other lacks, and they share a date
C5_Witness ==
    /\ ret.fn = "prepare_data"
    /\ DatesOf(treasury_df) \ DatesOf(swap_df) # {}
    /\ DatesOf(swap_df) \ DatesOf(treasury_df) # {}
    /\ Height(ret.value) > 0

\* the label a raw column gets: "<tenor>_<suffix>" when it is
\* "<ticker> <key>_PX_LAST" for a ticker of the lookup table, else its own
ExpectedLabel(col, mapping, suffix) ==
    IF \E ticker \in DOMAIN mapping, key \in {"Index", "Curncy"} :
           col = ticker \o " " \o key \o "_PX_LAST"
    THEN mapping[CHOOSE ticker \in DOMAIN mapping :
                    \E key \in {"Index", "Curncy"} :
                        col = ticker \o " " \o key \o "_PX_LAST"]
         \o "_" \o suffix
    ELSE col

\* the value columns of a raw table, in order
ValueColumns(df) == SelectSeq(df.columns, LAMBDA c : c # "index")

\* C6 as claimed: every column of prepare_data's result is a column
\* {tenor}_Treasury or {tenor}_Swap; a column that matches no lookup entry
\* is not in the result.
C6_OnlyTenorColumns ==
    ret.fn = "prepare_data" =>
        \A c \in Range(ret.value.columns) :
            \E n \in 1..Len(s_years) :
                c = TenorName(n) \o "_Treasury" \/ c = TenorName(n) \o "_Swap"

\* C6, amended: prepare_data drops no column.  Its result holds, in order,
\* every Treasury column and then every swap column: under {tenor}_Treasury
\* or {tenor}_Swap when the label is "<ticker> <key>_PX_LAST" with the
\* ticker in the table's lookup, else under its own label, with _x
\* (Treasury side) or _y (swap side) added when both tables end up carrying
\* the label; each column keeps its values on the dates kept.
C6_RenamedOrKept ==
    ret.fn = "prepare_data" =>
        LET tin  == ValueColumns(treasury_df)
            sin  == ValueColumns(swap_df)
            tnew == [i \in 1..Len(tin) |->
                        ExpectedLabel(tin[i], TREASURY_MAPPING, "Treasury")]
            snew == [i \in 1..Len(sin) |->
                        ExpectedLabel(sin[i], SWAP_MAPPING, "Swap")]
            tout == [i \in 1..Len(tin) |->
                        IF tnew[i] \in Range(snew) THEN tnew[i] \o "_x" ELSE tnew[i]]
            sout == [i \in 1..Len(sin) |->
                        IF snew[i] \in Range(tnew) THEN snew[i] \o "_y" ELSE snew[i]]
        IN  /\ ret.value.columns = tout \o sout
            /\ \A k \in 1..Height(ret.value) :
                  /\ \A i \in 1..Len(tin) :
                        ret.value.data[tout[i]][k] =
                            CellOn(treasury_df, tin[i], ret.value.index[k])
                  /\ \A i \in 1..Len(sin) :
                        ret.value.data[sout[i]][k] =
                            CellOn(swap_df, sin[i], ret.value.index[k])

\* a result with a renamed column, a column of an unknown ticker, a column
\* of another field and a column both tables carry
C6_Witness ==
    /\ ret.fn = "prepare_data"
    /\ Height(ret.value) > 0
    /\ HasColumn(ret.value, "1Y_Treasury")
    /\ HasColumn(ret.value, "1Y_Swap")
    /\ HasColumn(ret.value, "USSW7 Curncy_PX_LAST")
    /\ HasColumn(ret.value, "USGG2YR Index_PX_BID")
    /\ HasColumn(ret.value, "USGG7YR Index_PX_LAST_x")

\* C9: in the table calculate_treasury_swap_basis returns, every column
\* holds on every date the most recent basis computed at or before that
\* date: no gap from the first observation on, and nothing before it.
C9_ForwardFill ==
    (ret.fn = "calculate_treasury_swap_basis" /\ ret.raised = "") =>
        /\ Range(ret.value.columns) =
              {"Arb_Swap_" \o ToString(s_years[n]) :
                  n \in RawTenors(treasury_df, swap_df)}
        /\ \A n \in RawTenors(treasury_df, swap_df), k \in 1..Height(ret.value) :
              LET col == "Arb_Swap_" \o ToString(s_years[n])
                  d   == ret.value.index[k]
              IN  /\ ret.value.data[col][k] =
                        LatestBasis(treasury_df, swap_df, n, d)
                  /\ (\E j \in 1..k : RawBasis(treasury_df, swap_df, n,
                                               ret.value.index[j]) # NaN)
                        <=> ret.value.data[col][k] # NaN

\* a column whose first date stays missing and whose last date is filled
C9_Witness ==
    /\ ret.fn = "calculate_treasury_swap_basis"
    /\ ret.raised = ""
    /\ 1 \in RawTenors(treasury_df, swap_df)
    /\ Height(ret.value) >= 3
    /\ ret.value.data["Arb_Swap_1"][1] = NaN
    /\ ret.value.data["Arb_Swap_1"][2] # NaN
    /\ ret.value.data["Arb_Swap_1"][3] = ret.value.data["Arb_Swap_1"][2]
    /\ RawBasis(treasury_df, swap_df, 1, ret.value.index[3]) = NaN

\* C10: plot_figure, plot_supplementary, sup_table, calc_swap_spreads and
\* supplementary_main raise nothing when a tenor's columns are missing from
\* tables that hold the 1Y tenor: the tenor is skipped.
C10_MissingTenorSkipped ==
    /\ (/\ ret.fn \in {"calc_swap_spreads", "supplementary_main"}
        /\ HasColumn(treasury_df, GT(1))
        /\ HasColumn(swap_df, USSO(1)))
          => ret.raised = ""
    /\ (ret.fn \in {"sup_table", "plot_figure"} /\ HasColumn(ret.arg, ArbSwap(1)))
          => ret.raised = ""
    /\ (/\ ret.fn = "plot_supplementary"
        /\ HasColumn(ret.arg, GT(1))
        /\ HasColumn(ret.arg, USSO(1)))
          => ret.raised = ""

----------------------------------------------------------------------------
(* Claims on the entry points, checked under Spec and SpecRuns *)

LongFile == "ftsfr_treasury_swap_basis.parquet"

\* the tenor in years of a series name "Arb_Swap_<years>"
YearsOfName(name) ==
    CHOOSE y \in Range(s_years) : name = "Arb_Swap_" \o ToString(y)

\* the place of the decimal string of y < 100 among such strings: by first
\* digit, then the one-digit string first, then by second digit
DecimalStringRank(y) ==
    IF y < 10 THEN y * 100 ELSE (y \div 10) * 100 + (y % 10) + 1

\* row i of the long table df is at or before row j by (unique_id, ds)
NotAfter(df, i, j) ==
    LET ui == DecimalStringRank(YearsOfName(df.data["unique_id"][i][1]))
        uj == DecimalStringRank(YearsOfName(df.data["unique_id"][j][1]))
    IN  ui < uj \/ (ui = uj /\ df.data["ds"][i][1] <= df.data["ds"][j][1])

\* the file f is a long-format table as the spec describes it
WellFormedLong(f) ==
    /\ f.kind = "parquet"
    /\ f.df.columns = <<"unique_id", "ds", "y">>
    /\ \A i, j \in 1..Height(f.df) :
          i < j =>
              /\ NotAfter(f.df, i, j)
              /\ <<f.df.data["unique_id"][i], f.df.data["ds"][i]>> #
                    <<f.df.data["unique_id"][j], f.df.data["ds"][j]>>
    /\ \A i \in 1..Height(f.df) : f.df.data["y"][i] # NaN

\* C3: after an exporter run returns with the long-format file present,
\* whatever was there before the run, the file has exactly
\* the columns (unique_id, ds, y), is sorted ascending by (unique_id, ds),
\* has no repeated (unique_id, ds) and no missing y.
C3_AlwaysWellFormed ==
    (/\ run.main = "create_ftsfr_datasets"
     /\ run.raised = ""
     /\ Exists(fs, LongFile))
        => WellFormedLong(fs[LongFile])

\* the rows (unique_id, ds, y) of the long-format file f
RowsOf(f) ==
    {<<f.df.data["unique_id"][i][1], f.df.data["ds"][i][1], f.df.data["y"][i]>> :
        i \in 1..Height(f.df)}

\* the rows the raw tables t_df and s_df call for: for every tenor of both
\* and every date of both, the most recent basis, where there is one
RowsFromRaw(t_df, s_df) ==
    {row \in {<<"Arb_Swap_" \o ToString(s_years[n]), ToDatetime(d),
                LatestBasis(t_df, s_df, n, d)>> :
                n \in RawTenors(t_df, s_df),
                d \in DatesOf(t_df) \cap DatesOf(s_df)} :
        row[3] # NaN}

\* the long-format file of dir holds what the raw files of dir call for
ReflectsRaw(dir) ==
    LET rows == RowsFromRaw(dir["treasury_yields.parquet"].df,
                            dir["swap_rates.parquet"].df)
    IN  /\ rows # {} => dir[LongFile].kind = "parquet"
        /\ dir[LongFile].kind = "parquet" =>
              /\ Range(dir[LongFile].df.columns) = {"unique_id", "ds", "y"}
              /\ RowsOf(dir[LongFile]) = rows

\* C4 (as claimed): after the raw files change and the basis calculator
\* and the exporter are run again, the long-format file reflects the new
\* raw files and not those of an earlier run.
C4_RecomputedEveryRun ==
    (/\ pulls > 0
     /\ history = <<"calc_treasury_swap_basis", "create_ftsfr_datasets">>
     /\ run.main = "create_ftsfr_datasets"
     /\ run.raised = "")
        => ReflectsRaw(fs)

\* C4 (amended): the long-format file reflects the raw files of the run
\* whenever the exporter wrote it in that run; it writes only when it
\* finds no reusable file.
C4_RecomputedWhenWritten ==
    (run.main = "create_ftsfr_datasets" /\ run.result = "saved")
        => ReflectsRaw(fs)

\* the raw files were written a second time, the basis calculator and the
\* exporter were run again, and the exporter wrote rows
C4_Witness ==
    /\ pulls = 2
    /\ history = <<"calc_treasury_swap_basis", "create_ftsfr_datasets">>
    /\ run.main = "create_ftsfr_datasets"
    /\ run.result = "saved"
    /\ Height(fs[LongFile].df) > 0

\* the long-format file f reads, has the column set {unique_id, ds, y} and
\* has a row
Reusable(f) ==
    /\ f.kind = "parquet"
    /\ Range(f.df.columns) = {"unique_id", "ds", "y"}
    /\ Len(f.df.index) > 0

\* C7: an exporter run that finds a readable long-format file with the
\* column set {unique_id, ds, y} and at least one row does not call the
\* basis calculation and leaves the file as it is; one that finds no file,
\* another column set or no rows calls the calculation.
C7_ShortCircuit ==
    [][ExporterMain =>
          IF Reusable(fs[LongFile])
          THEN ~run'.calculated /\ fs' = fs
          ELSE run'.calculated]_vars

\* the exporter reused a file as it found it, columns in another order
C7_Witness ==
    /\ run.main = "create_ftsfr_datasets"
    /\ run.result = "existing"
    /\ ~run.calculated
    /\ fs[LongFile].kind = "parquet"
    /\ fs[LongFile].df.columns # <<"unique_id", "ds", "y">>

\* both raw files of dir are there
RawPresent(dir) ==
    /\ dir["treasury_yields.parquet"].kind = "parquet"
    /\ dir["swap_rates.parquet"].kind = "parquet"

\* the raw files of dir share a date and a tenor
RawHasData(dir) ==
    /\ RawPresent(dir)
    /\ DatesOf(dir["treasury_yields.parquet"].df) \cap
          DatesOf(dir["swap_rates.parquet"].df) # {}
    /\ RawTenors(dir["treasury_yields.parquet"].df,
                 dir["swap_rates.parquet"].df) # {}

C11_PlotReadsCalculatorOutput ==
    (/\ pulls > 0
     /\ history = <<"calc_treasury_swap_basis", "plot_figure">>
     /\ run.main = "plot_figure")
        => /\ run.raised # "FileNotFoundError"
           /\ Exists(fs, "swap_spreads.parquet")
           /\ Exists(fs, "tyields.parquet")
           /\ Exists(fs, "syields.parquet")
           /\ fs["swap_spreads.parquet"] = fs["treasury_swap_basis.parquet"]

C13_ExportIdempotent ==
    [][ExporterMain =>
          /\ run'.result = "saved" =>
                /\ WellFormedLong(fs'[LongFile])
                /\ RowsOf(fs'[LongFile]) =
                      RowsFromRaw(fs'["treasury_yields.parquet"].df,
                                  fs'["swap_rates.parquet"].df)
          /\ (run.main = "create_ftsfr_datasets" /\ run.result = "saved")
                => fs' = fs]_vars

\* the exporter ran twice in a row after a pull, the second run finding
\* the rows the exporter wrote
C13_Witness ==
    /\ pulls > 0
    /\ history = <<"create_ftsfr_datasets", "create_ftsfr_datasets">>
    /\ run.main = "create_ftsfr_datasets"
    /\ run.result = "existing"
    /\ WellFormedLong(fs[LongFile])
    /\ Height(fs[LongFile].df) > 0

----------------------------------------------------------------------------
(* Claims on the plotting functions, checked under SpecFn *)

\* the date d is in the window the call was given: from the start date on
\* and, when both dates are given, up to the end date
InCallWindow(d) ==
    \/ ret.opt[1] = None
    \/ /\ ret.opt[1][1] <= d
       /\ ret.opt[2] = None \/ d <= ret.opt[2][1]

\* the trace holds, in date order, one point per date of the window on
\* which the column label of the plotted table is present and positive,
\* with 100 times the rate as the argument of the logarithm
PositivePointsOnly(trace, label) ==
    /\ Range(trace.x) =
          {ret.arg.index[i] : i \in
              {j \in 1..Height(ret.arg) :
                  /\ InCallWindow(ret.arg.index[j])
                  /\ ret.arg.data[label][j] # NaN
                  /\ ret.arg.data[label][j][1] > 0}}
    /\ Len(trace.y) = Len(trace.x)
    /\ \A k \in 1..Len(trace.x) :
          /\ k > 1 => trace.x[k - 1] < trace.x[k]
          /\ trace.y[k] = 100 * CellOn(ret.arg, label, trace.x[k])[1]
          /\ trace.y[k] > 0

\* C14: in every chart of plot_supplementary, each trace has a point
\* exactly on the dates whose own rate is present and strictly positive,
\* so the logarithm is only taken of positive values and a trace does
\* not depend on the other column.
C14_LogOfPositiveOnly ==
    ret.fn = "plot_supplementary" =>
        \A n \in 1..Len(ret.value) :
            /\ PositivePointsOnly(ret.value[n].traces[1],
                   "GT" \o ToString(ret.value[n].year) \o " Govt")
            /\ PositivePointsOnly(ret.value[n].traces[2],
                   "USSO" \o ToString(ret.value[n].year) \o " CMPN Curncy")

\* the 1Y yield is zero or negative on one date and positive on the
\* other: its trace has one point and the swap trace both
C14_Witness ==
    /\ ret.fn = "plot_supplementary"
    /\ ret.opt = <<None, None>>
    /\ Len(ret.value) = Len(s_years)
    /\ \E i \in 1..Height(ret.arg) :
          ret.arg.data["GT1 Govt"][i] \in {Num(0), Num(-1)}
    /\ Len(ret.value[1].traces[1].x) = 1
    /\ Len(ret.value[1].traces[2].x) = 2

\* C15: plot_figure plots no point after end_date when end_date is given
\* and none before start_date when start_date is given, also when
\* start_date is None and end_date is given.
C15_Windowed ==
    ret.fn = "plot_figure" =>
        \A n \in 1..Len(ret.value) :
            \A k \in 1..Len(ret.value[n].x) :
                /\ ret.opt[1] # None => ret.opt[1][1] <= ret.value[n].x[k]
                /\ ret.opt[2] # None => ret.value[n].x[k] <= ret.opt[2][1]

====
